---- MODULE Spec2Model ----
(***************************************************************************)
(* DOOMLOADER: the NAM loader (doomloader/nam_loader.py) and the amp       *)
(* simulator (doomloader/amp_simulator.py) as a state machine.             *)
(*                                                                         *)
(* Python values are represented as follows.                               *)
(*   dict      a function from string keys to values                       *)
(*   float     an integer number of 1/Scale units (fixed point)            *)
(*   Path      a record [parent, stem, suffix], as pathlib splits a path   *)
(*   exception a record [type, msg], msg the parts of the f-string         *)
(*   ndarray   a sequence of samples                                       *)
(***************************************************************************)
EXTENDS Integers, Sequences, FiniteSets, TLC

(* ----------------------------- bounds --------------------------------- *)
\* longest audio buffer handed to process_audio
MaxLen == 2
\* largest number of keyword arguments in one set_parameters call
MaxKwargs == 2

(* ------------------------- Python basics ------------------------------ *)
None == "<None>"
NoExc == "<no exception>"

\* fixed-point resolution of a float: 1.0 is Scale
Scale == 100
One == Scale

EmptyDict == [k \in {} |-> None]

\* d[k] = v
DictSet(d, k, v) == [x \in (DOMAIN d) \cup {k} |-> IF x = k THEN v ELSE d[x]]

\* d.get(k, default)
DictGet(d, k, default) == IF k \in DOMAIN d THEN d[k] ELSE default

\* a completed call: the value returned and the warnings emitted
Return(v, w) == [raised |-> NoExc, msg |-> <<>>, value |-> v, warned |-> w]

\* a call left by an exception of the given type and message
Raise(t, m) == [raised |-> t, msg |-> m, value |-> None, warned |-> <<>>]

(* ----------------------------- paths ---------------------------------- *)
MkPath(parent, stem, suffix) == [parent |-> parent, stem |-> stem, suffix |-> suffix]

\* str(path)
PathStr(p) == p.parent \o "/" \o p.stem \o p.suffix

\* a suffix compared as it is written
Verbatim(s) == s

\* str.lower() on the suffixes that occur
Lower(s) ==
    CASE s = ".NAM" -> ".nam"
      [] s = ".JSON" -> ".json"
      [] s = ".WAV" -> ".wav"
      [] OTHER -> s

(* --------------------------- file system ------------------------------ *)
\* What the bytes of a file are to pickle.load and json.load:
\*   pickle  a pickle stream of the object obj (isdict: obj is a dict)
\*   json    JSON text of the value obj (isdict: obj is a JSON object)
\*   text    bytes that are neither (pickle: invalid load key)
\*   empty   no bytes at all
\*   cut     a pickle stream that ends between two opcodes
\*   inside  a pickle stream that ends inside a frame or an opcode's argument
\*   foreign a pickle stream of an instance of a class that cannot be found
PickleDict(obj, size) == [fmt |-> "pickle", isdict |-> TRUE, obj |-> obj, size |-> size]
PickleOther(size) == [fmt |-> "pickle", isdict |-> FALSE, obj |-> EmptyDict, size |-> size]
JsonObject(obj, size) == [fmt |-> "json", isdict |-> TRUE, obj |-> obj, size |-> size]
JsonOther(size) == [fmt |-> "json", isdict |-> FALSE, obj |-> EmptyDict, size |-> size]
TextBytes(size) == [fmt |-> "text", isdict |-> FALSE, obj |-> EmptyDict, size |-> size]
EmptyFile == [fmt |-> "empty", isdict |-> FALSE, obj |-> EmptyDict, size |-> 0]
Truncated(fmt, size) == [fmt |-> fmt, isdict |-> FALSE, obj |-> EmptyDict, size |-> size]
ForeignPickle(size) == [fmt |-> "foreign", isdict |-> FALSE, obj |-> EmptyDict, size |-> size]

CleanJazzJson == MkPath("amps", "clean_jazz", ".json")
TaggedJson == MkPath("amps", "tagged", ".json")
ListJson == MkPath("amps", "list", ".json")
BrokenJson == MkPath("amps", "broken", ".json")
LeadNam == MkPath("amps", "lead", ".nam")
OtherLeadNam == MkPath("other", "lead", ".nam")
RawNam == MkPath("amps", "raw", ".nam")
BinaryNam == MkPath("amps", "binary", ".NAM")
EmptyNam == MkPath("amps", "empty", ".nam")
MissingNam == MkPath("amps", "missing", ".nam")
MissingWav == MkPath("amps", "missing", ".wav")
TakeWav == MkPath("amps", "take", ".wav")
UpperJson == MkPath("amps", "upper", ".JSON")
TruncatedNam == MkPath("amps", "truncated", ".nam")
CutNam == MkPath("amps", "cut", ".nam")
ForeignNam == MkPath("amps", "foreign", ".nam")

\* the files that exist, with their contents
Files ==
    (CleanJazzJson :> JsonObject([name |-> "clean_jazz"], 22))
 @@ (TaggedJson :> JsonObject([name |-> "tagged", model_type |-> "custom"], 44))
 @@ (ListJson :> JsonOther(9))
 @@ (BrokenJson :> TextBytes(7))
 @@ (LeadNam :> PickleDict([name |-> "lead"], 64))
 @@ (OtherLeadNam :> PickleDict([name |-> "lead two", file_path |-> "stale"], 96))
 @@ (RawNam :> PickleOther(30))
 @@ (BinaryNam :> TextBytes(12))
 @@ (EmptyNam :> EmptyFile)
 @@ (TakeWav :> TextBytes(5))
 @@ (UpperJson :> JsonObject([name |-> "upper"], 17))
 @@ (TruncatedNam :> Truncated("inside", 40))
 @@ (CutNam :> Truncated("cut", 2))
 @@ (ForeignNam :> ForeignPickle(50))

\* every path a caller passes
Paths == (DOMAIN Files) \cup {MissingNam, MissingWav}

\* Path.exists()
Exists(p) == p \in DOMAIN Files

\* pickle.load(f)
pickle_load(c) ==
    CASE c.fmt = "pickle" -> Return(c, <<>>)
      [] c.fmt \in {"empty", "cut"} -> Raise("EOFError", <<"Ran out of input">>)
      [] c.fmt = "inside" -> Raise("UnpicklingError", <<"pickle data was truncated">>)
      [] c.fmt = "foreign" -> Raise("AttributeError", <<"Can't get attribute">>)
      [] OTHER -> Raise("UnpicklingError", <<"invalid load key">>)

\* json.load(f)
json_load(c) ==
    IF c.fmt = "json" THEN Return(c, <<>>)
    ELSE Raise("JSONDecodeError", <<"Expecting value">>)

(* ------------------------ NAMLoader (nam_loader.py) -------------------- *)
\* the value stored under 'raw_data': the unpickled non-dict object, or bytes
RawObject == [isbytes |-> FALSE, len |-> 0]
RawBytes(n) == [isbytes |-> TRUE, len |-> n]

NAMLoader_supported_formats == {".nam", ".json"}

\* NAMLoader._load_alternative_format
_load_alternative_format(file_path) ==
    LET raw_len == Files[file_path].size
    IN Return([raw_data |-> RawBytes(raw_len),
               file_path |-> PathStr(file_path),
               file_size |-> raw_len,
               model_type |-> "nam_binary",
               needs_processing |-> TRUE], <<>>)

\* the three keys _load_nam_model adds to the unpickled dict
StampNam(model_data, file_path) ==
    DictSet(DictSet(DictSet(model_data,
        "file_path", PathStr(file_path)),
        "file_size", Files[file_path].size),
        "model_type", "nam")

\* _load_nam_model without its except clause: every exception propagates
LoadNamModelNoFallback(file_path) ==
    LET unpickled == pickle_load(Files[file_path])
    IN IF unpickled.raised # NoExc THEN unpickled
       ELSE IF ~unpickled.value.isdict
            THEN Return(StampNam([raw_data |-> RawObject], file_path),
                        <<"NAM file format may not be standard">>)
       ELSE Return(StampNam(unpickled.value.obj, file_path), <<>>)

\* _load_nam_model with "except Exception": every exception falls back
LoadNamModelAlwaysFallback(file_path) ==
    LET unpickled == pickle_load(Files[file_path])
    IN IF unpickled.raised # NoExc THEN _load_alternative_format(file_path)
       ELSE IF ~unpickled.value.isdict
            THEN Return(StampNam([raw_data |-> RawObject], file_path),
                        <<"NAM file format may not be standard">>)
       ELSE Return(StampNam(unpickled.value.obj, file_path), <<>>)

\* NAMLoader._load_nam_model
_load_nam_model(file_path) ==
    LET unpickled == pickle_load(Files[file_path])
    IN IF unpickled.raised = "UnpicklingError" THEN _load_alternative_format(file_path)
       ELSE IF unpickled.raised # NoExc THEN unpickled
       ELSE IF ~unpickled.value.isdict
            THEN Return(StampNam([raw_data |-> RawObject], file_path),
                        <<"NAM file format may not be standard">>)
       ELSE Return(StampNam(unpickled.value.obj, file_path), <<>>)

\* the two keys _load_json_metadata adds to the parsed mapping
StampJson(metadata, file_path) ==
    DictSet(DictSet(metadata,
        "file_path", PathStr(file_path)),
        "metadata_type", "nam_config")

\* NAMLoader._load_json_metadata
_load_json_metadata(file_path) ==
    LET parsed == json_load(Files[file_path])
    IN IF parsed.raised # NoExc THEN parsed
       ELSE IF ~parsed.value.isdict
            THEN Raise("TypeError", <<"object does not support item assignment">>)
       ELSE Return(StampJson(parsed.value.obj, file_path), <<>>)

\* NAMLoader.load_nam_file
load_nam_file(file_path) ==
    IF ~Exists(file_path)
    THEN Raise("FileNotFoundError", <<"NAM file not found: ", PathStr(file_path)>>)
    ELSE IF Lower(file_path.suffix) \notin NAMLoader_supported_formats
    THEN Raise("ValueError", <<"Unsupported file format: ", file_path.suffix>>)
    ELSE LET loaded == IF Lower(file_path.suffix) = ".nam"
                       THEN _load_nam_model(file_path)
                       ELSE _load_json_metadata(file_path)
         IN IF loaded.raised # NoExc
            THEN Raise("ValueError",
                       <<"Error loading NAM file ", PathStr(file_path), ": ">> \o loaded.msg)
            ELSE loaded

\* validate_nam_file returning True from inside the loop, after the first key
ValidateFirstKeyOnly(model_data) == "file_path" \in DOMAIN model_data

required_keys == <<"file_path", "model_type">>

\* NAMLoader.validate_nam_file
validate_nam_file(model_data) ==
    \A i \in 1..Len(required_keys) : required_keys[i] \in DOMAIN model_data

\* NAMLoader.get_model_info
NAMLoader_get_model_info(model_data) ==
    LET info == [file_path |-> DictGet(model_data, "file_path", "unknown"),
                 model_type |-> DictGet(model_data, "model_type", "unknown"),
                 file_size |-> DictGet(model_data, "file_size", 0),
                 is_valid |-> validate_nam_file(model_data)]
    IN IF "raw_data" \in DOMAIN model_data
       THEN DictSet(DictSet(info, "has_raw_data", TRUE),
                    "data_size", IF model_data["raw_data"].isbytes
                                 THEN ToString(model_data["raw_data"].len)
                                 ELSE "unknown")
       ELSE info

(* ------------------- insertion-ordered dict (loaded_models) ------------ *)
\* A Python dict iterates in insertion order, so loaded_models is a sequence
\* of [name, data] entries with distinct names.
OdKeys(od) == [i \in 1..Len(od) |-> od[i].name]

\* name in od
OdHas(od, name) == \E i \in 1..Len(od) : od[i].name = name

\* od[name]
OdGet(od, name) == od[CHOOSE i \in 1..Len(od) : od[i].name = name].data

\* del od[name] before od[name] = data: a key set again goes last
OdSetMovesLast(od, name, data) ==
    Append(SelectSeq(od, LAMBDA e : e.name # name), [name |-> name, data |-> data])

\* od.setdefault(name, data): an existing key keeps its value
OdSetDefault(od, name, data) ==
    IF \E i \in 1..Len(od) : od[i].name = name THEN od
    ELSE Append(od, [name |-> name, data |-> data])

\* od[name] = data: an existing key keeps its place, a new key goes last
OdSet(od, name, data) ==
    IF OdHas(od, name)
    THEN [i \in 1..Len(od) |-> IF od[i].name = name
                               THEN [name |-> name, data |-> data]
                               ELSE od[i]]
    ELSE Append(od, [name |-> name, data |-> data])

(* ------------------------- float arithmetic --------------------------- *)
\* the floats that are no numbers of the fixed-point grid: float('inf'),
\* written Inf and -Inf, above and below every finite value, and float('nan')
Inf == 10000 * Scale
NaN == 20000 * Scale
IsFinite(x) == x # NaN /\ x # Inf /\ x # -Inf

\* a * b, rounded toward zero; inf * 0 is nan
FMul(a, b) ==
    IF a = NaN \/ b = NaN THEN NaN
    ELSE IF ~IsFinite(a) \/ ~IsFinite(b)
    THEN IF a = 0 \/ b = 0 THEN NaN
         ELSE IF (a > 0) = (b > 0) THEN Inf ELSE -Inf
    ELSE LET p == a * b
         IN IF p >= 0 THEN p \div Scale ELSE -((-p) \div Scale)

\* a + b; inf + -inf is nan
FAdd(a, b) ==
    IF a = NaN \/ b = NaN THEN NaN
    ELSE IF ~IsFinite(a) THEN (IF ~IsFinite(b) /\ b # a THEN NaN ELSE a)
    ELSE IF ~IsFinite(b) THEN b
    ELSE a + b

\* a / b for finite b > 0, rounded toward zero
FDiv(a, b) ==
    IF ~IsFinite(a) THEN a
    ELSE LET n == a * Scale
         IN IF n >= 0 THEN n \div b ELSE -((-n) \div b)

\* builtin min(a, b) and max(a, b)
PyMin(a, b) == IF b < a THEN b ELSE a
PyMax(a, b) == IF b > a THEN b ELSE a

\* np.pi
Pi == (355 * Scale) \div 113

\* np.tanh(u): the Pade approximant u(27 + u^2)/(27 + 9u^2), exact at 0,
\* odd, increasing, and saturated at +-1 from |u| = 3 on
Tanh(u) ==
    IF u = NaN THEN NaN
    ELSE IF u >= 3 * Scale THEN One
    ELSE IF u <= -(3 * Scale) THEN -One
    ELSE LET num == u * (27 * Scale * Scale + u * u)
             den == 27 * Scale * Scale + 9 * u * u
         IN IF num >= 0 THEN num \div den ELSE -((-num) \div den)

\* np.sin(v) for |v| <= pi: Bhaskara's approximation
\* 16a(pi - a)/(5pi^2 - 4a(pi - a)) on a = |v|, odd in v
Sin(v) ==
    IF ~IsFinite(v) THEN NaN ELSE
    LET a0 == IF v >= 0 THEN v ELSE -v
        a == IF a0 > Pi THEN Pi ELSE a0
        t == a * (Pi - a)
        s == (16 * t * Scale) \div (5 * Pi * Pi - 4 * t)
    IN IF v >= 0 THEN s ELSE -s

\* np.clip(x, lo, hi) on one sample; nan stays nan
Clip(x, lo, hi) ==
    IF x = NaN THEN NaN ELSE IF x < lo THEN lo ELSE IF x > hi THEN hi ELSE x

(* --------------------- AmpSimulator (amp_simulator.py) ----------------- *)
\* identities of the two dict objects that hold parameters: the one created
\* in __init__ and the one created by dict.copy() in get_parameters
ParamsObj == "self.processing_parameters"
CopyObj == "copy"

VARIABLES
    loaded_models,   \* self.loaded_models, in insertion order
    current_model,   \* self.current_model, a name or None
    heap,            \* the contents of the parameter dict objects, by identity
    held,            \* the object get_parameters last returned to the caller, or None
    call,            \* the last call: its operation and arguments
    ret              \* how the last call ended: value returned or exception raised

vars == <<loaded_models, current_model, heap, held, call, ret>>

\* self.processing_parameters, read through its object
processing_parameters == heap[ParamsObj]

\* AmpSimulator.__init__: the default parameters
DefaultParameters ==
    [gain |-> One, tone |-> One \div 2, volume |-> (8 * One) \div 10, bias |-> 0]

Init ==
    /\ loaded_models = <<>>
    /\ current_model = None
    /\ heap = (ParamsObj :> DefaultParameters)
    /\ held = None
    /\ call = [op |-> "__init__"]
    /\ ret = Return(None, <<>>)

\* load_nam_model never selecting the model it stored
NeverSelect(current, model_name) == current

\* load_nam_model selecting every model it stored
AlwaysSelect(current, model_name) == model_name

\* load_nam_model, "Set as current model if it's the first one loaded"
SelectIfFirst(current, model_name) ==
    IF current = None THEN model_name ELSE current

\* load_nam_model: the name the model is stored under
ModelName(model_path, model_name) ==
    IF model_name = None THEN model_path.stem ELSE model_name

\* load_nam_model: the body of the try block, up to the store
LoadAndValidate(model_path) ==
    LET model_data == load_nam_file(model_path)
    IN IF model_data.raised # NoExc THEN model_data
       ELSE IF ~validate_nam_file(model_data.value)
            THEN Raise("ValueError", <<"Invalid NAM model: ", PathStr(model_path)>>)
       ELSE model_data

\* load_nam_model without its except clause: the loader's exception escapes
LoadNamModelUncaught(model_path, model_name) ==
    LET name == ModelName(model_path, model_name)
        tried == LoadAndValidate(model_path)
    IN /\ call' = [op |-> "load_nam_model", model_path |-> model_path,
                   model_name |-> model_name]
       /\ IF tried.raised = NoExc
          THEN /\ loaded_models' = OdSet(loaded_models, name, tried.value)
               /\ current_model' = SelectIfFirst(current_model, name)
               /\ ret' = Return(name, tried.warned)
          ELSE /\ ret' = tried
               /\ UNCHANGED <<loaded_models, current_model>>
       /\ UNCHANGED <<heap, held>>

\* load_nam_model storing the record before it validates it
LoadNamModelStoresFirst(model_path, model_name) ==
    LET name == ModelName(model_path, model_name)
        model_data == load_nam_file(model_path)
        tried == LoadAndValidate(model_path)
    IN /\ call' = [op |-> "load_nam_model", model_path |-> model_path,
                   model_name |-> model_name]
       /\ IF model_data.raised = NoExc
          THEN /\ loaded_models' = OdSet(loaded_models, name, model_data.value)
               /\ current_model' = SelectIfFirst(current_model, name)
          ELSE UNCHANGED <<loaded_models, current_model>>
       /\ ret' = IF tried.raised = NoExc THEN Return(name, tried.warned)
                 ELSE Raise("ValueError",
                            <<"Failed to load NAM model ", PathStr(model_path), ": ">>
                            \o tried.msg)
       /\ UNCHANGED <<heap, held>>

\* AmpSimulator.load_nam_model
load_nam_model(model_path, model_name) ==
    LET name == ModelName(model_path, model_name)
        tried == LoadAndValidate(model_path)
    IN /\ call' = [op |-> "load_nam_model", model_path |-> model_path,
                   model_name |-> model_name]
       /\ IF tried.raised = NoExc
          THEN /\ loaded_models' = OdSet(loaded_models, name, tried.value)
               /\ current_model' = SelectIfFirst(current_model, name)
               /\ ret' = Return(name, tried.warned)
          ELSE /\ ret' = Raise("ValueError",
                               <<"Failed to load NAM model ", PathStr(model_path), ": ">>
                               \o tried.msg)
               /\ UNCHANGED <<loaded_models, current_model>>
       /\ UNCHANGED <<heap, held>>

\* set_current_model assigning before it checks
SetCurrentUnchecked(model_name) ==
    /\ call' = [op |-> "set_current_model", model_name |-> model_name]
    /\ current_model' = model_name
    /\ ret' = IF ~OdHas(loaded_models, model_name)
              THEN Raise("ValueError", <<"Model '", model_name, "' not loaded">>)
              ELSE Return(None, <<>>)
    /\ UNCHANGED <<loaded_models, heap, held>>

\* set_current_model deselecting when the name is unknown
SetCurrentClearsOnFailure(model_name) ==
    /\ call' = [op |-> "set_current_model", model_name |-> model_name]
    /\ IF ~OdHas(loaded_models, model_name)
       THEN /\ ret' = Raise("ValueError", <<"Model '", model_name, "' not loaded">>)
            /\ current_model' = None
       ELSE /\ current_model' = model_name
            /\ ret' = Return(None, <<>>)
    /\ UNCHANGED <<loaded_models, heap, held>>

\* AmpSimulator.set_current_model
set_current_model(model_name) ==
    /\ call' = [op |-> "set_current_model", model_name |-> model_name]
    /\ IF ~OdHas(loaded_models, model_name)
       THEN /\ ret' = Raise("ValueError", <<"Model '", model_name, "' not loaded">>)
            /\ UNCHANGED current_model
       ELSE /\ current_model' = model_name
            /\ ret' = Return(None, <<>>)
    /\ UNCHANGED <<loaded_models, heap, held>>

\* AmpSimulator.get_loaded_models
get_loaded_models ==
    /\ call' = [op |-> "get_loaded_models"]
    /\ ret' = Return(OdKeys(loaded_models), <<>>)
    /\ UNCHANGED <<loaded_models, current_model, heap, held>>

\* get_model_info indexing loaded_models without the membership test
GetModelInfoStrict(model_name) ==
    LET name == IF model_name = None THEN current_model ELSE model_name
    IN /\ call' = [op |-> "get_model_info", model_name |-> model_name]
       /\ ret' = IF name = None \/ ~OdHas(loaded_models, name)
                 THEN Raise("KeyError", <<name>>)
                 ELSE Return(NAMLoader_get_model_info(OdGet(loaded_models, name)), <<>>)
       /\ UNCHANGED <<loaded_models, current_model, heap, held>>

\* AmpSimulator.get_model_info
get_model_info(model_name) ==
    LET name == IF model_name = None THEN current_model ELSE model_name
    IN /\ call' = [op |-> "get_model_info", model_name |-> model_name]
       /\ ret' = IF name = None \/ ~OdHas(loaded_models, name)
                 THEN Return([error |-> "No model specified or model not found"], <<>>)
                 ELSE Return(NAMLoader_get_model_info(OdGet(loaded_models, name)), <<>>)
       /\ UNCHANGED <<loaded_models, current_model, heap, held>>

(* ---- parameters ---- *)
\* gain, tone, volume clamped from below only
ClampLowerOnly(value) == PyMax(0, value)

\* set_parameters: max(0.0, min(1.0, float(value))) for gain, tone, volume
ClampUnit(value) == PyMax(0, PyMin(One, value))

\* set_parameters: max(-1.0, min(1.0, float(value))) for bias
ClampBias(value) == PyMax(-One, PyMin(One, value))

\* set_parameters storing every keyword, known or not
SetAnyParameter(store, param, value) ==
    [store |-> DictSet(store, param, value), warned |-> <<>>]

\* set_parameters: the body of the loop for one keyword argument
SetParameter(store, param, value) ==
    IF param \in DOMAIN store
    THEN [store |-> DictSet(store, param,
                      IF param \in {"gain", "tone", "volume"} THEN ClampUnit(value)
                      ELSE IF param = "bias" THEN ClampBias(value)
                      ELSE value),
          warned |-> <<>>]
    ELSE [store |-> store, warned |-> <<"Unknown parameter: " \o param>>]

\* set_parameters: the loop over params.items(), in keyword order
RECURSIVE SetParameters(_, _)
SetParameters(store, params) ==
    IF params = <<>> THEN [store |-> store, warned |-> <<>>]
    ELSE LET first == SetParameter(store, Head(params).param, Head(params).value)
             rest == SetParameters(first.store, Tail(params))
         IN [store |-> rest.store, warned |-> first.warned \o rest.warned]

\* AmpSimulator.set_parameters(**params)
set_parameters(params) ==
    LET done == SetParameters(processing_parameters, params)
    IN /\ call' = [op |-> "set_parameters", params |-> params]
       /\ heap' = [heap EXCEPT ![ParamsObj] = done.store]
       /\ ret' = Return(None, done.warned)
       /\ UNCHANGED <<loaded_models, current_model, held>>

\* get_parameters returning self.processing_parameters itself
DictAlias(src) == src

\* dict.copy(): the identity of the dict returned for the dict src
DictCopy(src) == CopyObj

\* AmpSimulator.get_parameters: the caller now holds the returned dict
get_parameters ==
    LET returned == DictCopy(ParamsObj)
    IN /\ call' = [op |-> "get_parameters"]
       /\ heap' = (returned :> heap[ParamsObj]) @@ heap
       /\ held' = returned
       /\ ret' = Return(heap[ParamsObj], <<>>)
       /\ UNCHANGED <<loaded_models, current_model>>

\* the caller writes into the dict get_parameters returned: returned[key] = value
CallerWrites(key, value) ==
    /\ held # None
    /\ call' = [op |-> "caller writes", key |-> key, value |-> value]
    /\ heap' = [heap EXCEPT ![held] = DictSet(@, key, value)]
    /\ ret' = Return(None, <<>>)
    /\ UNCHANGED <<loaded_models, current_model, held>>

(* ---- signal chain ---- *)
\* AmpSimulator._apply_preprocessing
_apply_preprocessing(audio_data, parameters) ==
    [i \in 1..Len(audio_data) |->
        Clip(FAdd(FMul(audio_data[i], parameters["gain"]), parameters["bias"]),
             -One, One)]

\* AmpSimulator._apply_nam_simulation on one sample
NamSample(x, tone) ==
    LET drive == One + FMul(tone, 4 * One)
        processed == FDiv(Tanh(FMul(x, drive)), drive)
        harmonic_content == FMul(FMul(Sin(FMul(x, Pi)), tone), One \div 10)
    IN Clip(FAdd(processed, harmonic_content), -One, One)

\* _apply_nam_simulation passing the audio through for a record that still
\* needs processing
NamSimulationByKind(audio_data, model_data, parameters) ==
    IF DictGet(model_data, "needs_processing", FALSE) = TRUE THEN audio_data
    ELSE [i \in 1..Len(audio_data) |-> NamSample(audio_data[i], parameters["tone"])]

\* AmpSimulator._apply_nam_simulation
_apply_nam_simulation(audio_data, model_data, parameters) ==
    [i \in 1..Len(audio_data) |-> NamSample(audio_data[i], parameters["tone"])]

\* postprocessing as a make-up boost by 1 + volume, without the final clamp
PostprocessingBoost(audio_data, parameters) ==
    [i \in 1..Len(audio_data) |-> FMul(audio_data[i], One + parameters["volume"])]

\* postprocessing that clamps and leaves the volume out
PostprocessingUnity(audio_data, parameters) ==
    [i \in 1..Len(audio_data) |-> Clip(audio_data[i], -One, One)]

\* AmpSimulator._apply_postprocessing
_apply_postprocessing(audio_data, parameters) ==
    [i \in 1..Len(audio_data) |->
        Clip(FMul(audio_data[i], parameters["volume"]), -One, One)]

\* a numpy array of samples, and an argument that is not a numpy array
Ndarray(samples) == [isarray |-> TRUE, samples |-> samples]
NotArray(samples) == [isarray |-> FALSE, samples |-> samples]

\* process_audio checking the argument before the model
ArgumentCheckedFirst(current, audio_data) ==
    IF ~audio_data.isarray
    THEN Raise("ValueError", <<"Audio data must be a numpy array">>)
    ELSE IF current = None
    THEN Raise("ValueError", <<"No NAM model loaded for processing">>)
    ELSE Return(None, <<>>)

\* process_audio: the two checks before the chain
ProcessPrecondition(current, audio_data) ==
    IF current = None
    THEN Raise("ValueError", <<"No NAM model loaded for processing">>)
    ELSE IF ~audio_data.isarray
    THEN Raise("ValueError", <<"Audio data must be a numpy array">>)
    ELSE Return(None, <<>>)

\* process_audio after the checks: the three stages in order
SignalChain(audio_data, model_data, parameters) ==
    _apply_postprocessing(
        _apply_nam_simulation(
            _apply_preprocessing(audio_data, parameters),
            model_data, parameters),
        parameters)

\* AmpSimulator.process_audio as a function of the simulator's state
ProcessAudio(models, current, parameters, audio_data) ==
    LET checked == ProcessPrecondition(current, audio_data)
    IN IF checked.raised # NoExc THEN checked
       ELSE IF ~OdHas(models, current) THEN Raise("KeyError", <<current>>)
       ELSE Return(SignalChain(audio_data.samples, OdGet(models, current), parameters),
                   <<>>)

\* process_audio with an automatic gain control: a successful call halves the
\* stored gain
ProcessAudioAdaptsGain(audio_data) ==
    LET out == ProcessAudio(loaded_models, current_model, processing_parameters,
                            audio_data)
    IN /\ call' = [op |-> "process_audio", audio_data |-> audio_data]
       /\ ret' = out
       /\ heap' = IF out.raised = NoExc
                  THEN [heap EXCEPT ![ParamsObj]["gain"] = @ \div 2]
                  ELSE heap
       /\ UNCHANGED <<loaded_models, current_model, held>>

\* AmpSimulator.process_audio
process_audio(audio_data) ==
    /\ call' = [op |-> "process_audio", audio_data |-> audio_data]
    /\ ret' = ProcessAudio(loaded_models, current_model, processing_parameters, audio_data)
    /\ UNCHANGED <<loaded_models, current_model, heap, held>>

(* ---- array objects ---- *)
\* identities of the array objects: the array the caller passes, and the
\* array the chain allocates for its result
InputObj == "audio_data"
ProcessedObj == "processed"

\* the caller fills the array it is going to pass
CallerFills(samples) ==
    /\ call' = [op |-> "caller fills", samples |-> samples]
    /\ heap' = (InputObj :> samples) @@ heap
    /\ ret' = Return(None, <<>>)
    /\ UNCHANGED <<loaded_models, current_model, held>>

\* the chain computed with in-place operators (audio_data *= gain_factor,
\* np.clip(..., out=audio_data)): the result is the array passed in
InPlace(src) == src

\* audio_data * gain_factor, processed + bias, np.clip(processed, -1.0, 1.0):
\* each returns an array numpy allocates, whatever the values
NewArray(src) == ProcessedObj

\* AmpSimulator.process_audio on the caller's array object: the samples of the
\* result are written to the array the chain returns
ProcessArray ==
    LET out == ProcessAudio(loaded_models, current_model, processing_parameters,
                            Ndarray(heap[InputObj]))
        returned == NewArray(InputObj)
    IN /\ InputObj \in DOMAIN heap
       /\ call' = [op |-> "process_audio(array)", audio_data |-> InputObj]
       /\ IF out.raised = NoExc
          THEN /\ heap' = (returned :> out.value) @@ heap
               /\ ret' = Return(returned, <<>>)
          ELSE /\ ret' = out
               /\ UNCHANGED heap
       /\ UNCHANGED <<loaded_models, current_model, held>>

(* -------------------- AudioProcessor (processor.py) -------------------- *)
\* longest effect chain built
MaxChain == 3

\* identities of the list self.effect_chain, of the list made by
\* self.effect_chain.copy(), and of the dict the caller passes to process
EffectChainObj == "self.effect_chain"
AudioDataObj == "audio_data dict"

\* self.effect_chain, read through its object
effect_chain == heap[EffectChainObj]

\* self.available_effects
available_effects == <<"reverb", "delay", "distortion", "equalizer", "compressor">>

\* an optional argument: left out (None) or given
NotGiven == [given |-> FALSE, value |-> EmptyDict]
Given(v) == [given |-> TRUE, value |-> v]

\* AudioProcessor.__init__, with the dict the caller is going to process
InitProcessor(audio_data) ==
    /\ loaded_models = <<>>
    /\ current_model = None
    /\ heap = (EffectChainObj :> <<>>) @@ (AudioDataObj :> audio_data)
    /\ held = None
    /\ call = [op |-> "AudioProcessor.__init__"]
    /\ ret = Return(None, <<>>)

\* add_effect accepting every name
AnySupported(effect_name) == TRUE

\* add_effect: effect_name in self.available_effects
Supported(effect_name) ==
    \E i \in 1..Len(available_effects) : available_effects[i] = effect_name

\* add_effect: the entry built, with "parameters or {}"
EffectConfig(effect_name, parameters) ==
    [name |-> effect_name,
     parameters |-> IF parameters.given /\ parameters.value # EmptyDict
                    THEN parameters.value ELSE EmptyDict]

\* add_effect putting the entry in front: self.effect_chain.insert(0, ...)
ChainInsertFirst(chain, effect_config) == <<effect_config>> \o chain

\* add_effect: self.effect_chain.append(effect_config)
ChainAppend(chain, effect_config) == Append(chain, effect_config)

\* AudioProcessor.add_effect
add_effect(effect_name, parameters) ==
    /\ Len(effect_chain) < MaxChain
    /\ call' = [op |-> "add_effect", effect_name |-> effect_name,
                parameters |-> parameters]
    /\ IF ~Supported(effect_name)
       THEN /\ ret' = Raise("ValueError", <<"Unsupported effect: ", effect_name>>)
            /\ UNCHANGED heap
       ELSE /\ heap' = [heap EXCEPT ![EffectChainObj] =
                           ChainAppend(@, EffectConfig(effect_name, parameters))]
            /\ ret' = Return(None, <<>>)
    /\ UNCHANGED <<loaded_models, current_model, held>>

\* remove_effect popping every entry of the name
RemoveEvery(chain, effect_name) ==
    SelectSeq(chain, LAMBDA effect : effect.name # effect_name)

\* remove_effect: the chain after the loop, which pops the first entry of the
\* name and returns
RemoveFirst(chain, effect_name) ==
    IF \E i \in 1..Len(chain) : chain[i].name = effect_name
    THEN LET i == CHOOSE k \in 1..Len(chain) :
                     /\ chain[k].name = effect_name
                     /\ \A j \in 1..(k - 1) : chain[j].name # effect_name
         IN SubSeq(chain, 1, i - 1) \o SubSeq(chain, i + 1, Len(chain))
    ELSE chain

\* AudioProcessor.remove_effect
remove_effect(effect_name) ==
    /\ call' = [op |-> "remove_effect", effect_name |-> effect_name]
    /\ heap' = [heap EXCEPT ![EffectChainObj] = RemoveFirst(@, effect_name)]
    /\ ret' = Return(\E i \in 1..Len(effect_chain) : effect_chain[i].name = effect_name,
                     <<>>)
    /\ UNCHANGED <<loaded_models, current_model, held>>

\* AudioProcessor.clear_effects
clear_effects ==
    /\ call' = [op |-> "clear_effects"]
    /\ heap' = [heap EXCEPT ![EffectChainObj] = <<>>]
    /\ ret' = Return(None, <<>>)
    /\ UNCHANGED <<loaded_models, current_model, held>>

\* AudioProcessor.get_effect_chain
get_effect_chain ==
    /\ call' = [op |-> "get_effect_chain"]
    /\ ret' = Return(effect_chain, <<>>)
    /\ UNCHANGED <<loaded_models, current_model, heap, held>>

\* process storing self.effect_chain itself under 'processing_chain'
ListAlias(src) == src

\* list.copy(): the identity of the list returned for the list src
ListCopy(src) == "effect_chain.copy()"

\* AudioProcessor.process: the dict returned is audio_data.copy() with the
\* two entries set; 'processing_chain' refers to the copied list
process(audio_data) ==
    LET processed_data == DictCopy(audio_data)
        processing_chain == ListCopy(EffectChainObj)
        effects_applied == [i \in 1..Len(effect_chain) |-> effect_chain[i].name]
    IN /\ call' = [op |-> "process", audio_data |-> audio_data]
       /\ heap' = (processed_data :>
                      DictSet(DictSet(heap[audio_data],
                          "effects_applied", effects_applied),
                          "processing_chain", processing_chain))
                  @@ (processing_chain :> effect_chain)
                  @@ heap
       /\ ret' = Return(processed_data, <<>>)
       /\ UNCHANGED <<loaded_models, current_model, held>>

(* ----------------------- AudioLoader (loader.py) ---------------------- *)
\* identity of the dict self.loaded_files
LoadedFilesObj == "self.loaded_files"

\* self.loaded_files, read through its object
loaded_files == heap[LoadedFilesObj]

\* self.supported_formats
AudioLoader_supported_formats == {".wav", ".mp3", ".ogg", ".flac", ".m4a"}

\* audio files that exist, besides take.wav
LoudWav == MkPath("takes", "loud", ".WAV")
AudioFiles ==
    {LoudWav, MkPath("takes", "riff", ".mp3"), MkPath("takes", "solo", ".flac")}

\* os.path.exists(file_path)
os_path_exists(file_path) == file_path \in (DOMAIN Files) \cup AudioFiles

\* os.path.splitext(file_path)[1]
splitext_ext(file_path) == file_path.suffix

\* AudioLoader.__init__
InitLoader ==
    /\ loaded_models = <<>>
    /\ current_model = None
    /\ heap = (LoadedFilesObj :> EmptyDict)
    /\ held = None
    /\ call = [op |-> "AudioLoader.__init__"]
    /\ ret = Return(None, <<>>)

\* load testing the extension before the existence
ExtensionCheckedFirst(file_path) ==
    IF Lower(splitext_ext(file_path)) \notin AudioLoader_supported_formats
    THEN Raise("ValueError",
               <<"Unsupported audio format: ", Lower(splitext_ext(file_path))>>)
    ELSE IF ~os_path_exists(file_path)
    THEN Raise("FileNotFoundError", <<"Audio file not found: ", PathStr(file_path)>>)
    ELSE Return(None, <<>>)

\* load: the two checks before the dict is built
LoadPrecondition(file_path) ==
    IF ~os_path_exists(file_path)
    THEN Raise("FileNotFoundError", <<"Audio file not found: ", PathStr(file_path)>>)
    ELSE IF Lower(splitext_ext(file_path)) \notin AudioLoader_supported_formats
    THEN Raise("ValueError",
               <<"Unsupported audio format: ", Lower(splitext_ext(file_path))>>)
    ELSE Return(None, <<>>)

\* AudioLoader.load
load(file_path) ==
    LET checked == LoadPrecondition(file_path)
        audio_data == [file_path |-> PathStr(file_path),
                       format |-> Lower(splitext_ext(file_path)),
                       sample_rate |-> 44100, channels |-> 2, duration |-> 0,
                       data |-> None]
    IN /\ call' = [op |-> "load", file_path |-> file_path]
       /\ IF checked.raised # NoExc
          THEN /\ ret' = checked
               /\ UNCHANGED heap
          ELSE /\ heap' = [heap EXCEPT ![LoadedFilesObj] =
                              DictSet(@, PathStr(file_path), audio_data)]
               /\ ret' = Return(audio_data, <<>>)
       /\ UNCHANGED <<loaded_models, current_model, held>>

\* AudioLoader.is_supported
is_supported(file_path) ==
    /\ call' = [op |-> "is_supported", file_path |-> file_path]
    /\ ret' = Return(Lower(splitext_ext(file_path)) \in AudioLoader_supported_formats,
                     <<>>)
    /\ UNCHANGED <<loaded_models, current_model, heap, held>>

(* --------------------- FileHandler (file_handler.py) ------------------- *)
\* an entry of a directory tree: a path, and whether it is a regular file
Entry(path, isfile) == [path |-> path, isfile |-> isfile]

\* the entries a tree under "amps" may hold; old.nam is a directory
Entries ==
    {Entry(f, TRUE) :
        f \in {LeadNam, MkPath("amps", "lead", ".json"), BinaryNam,
               CleanJazzJson, TakeWav, MkPath("amps", "notes", ".txt"),
               MkPath("amps/sub", "deep", ".nam")}}
    \cup {Entry(MkPath("amps", "old", ".nam"), FALSE)}

\* the directories that exist whatever the tree holds
Directories == {"amps", "amps/sub"}

\* scan_directory: the list a file of the extension is appended to; the
\* last test is against self.supported_extensions
Category(ext) ==
    IF ext = ".nam" THEN "nam_files"
    ELSE IF ext = ".json" THEN "metadata_files"
    ELSE IF ext \in {".wav", ".mp3", ".flac"} THEN "audio_files"
    ELSE IF ext \in {".nam", ".json", ".wav", ".mp3", ".flac"} THEN "other_files"
    ELSE "no list"

\* FileHandler.scan_directory; rglob yields the entries at any depth, and
\* each list is held as the set of its paths, the order being the one the
\* file system yields
scan_directory(directory, tree) ==
    LET below == {directory} \cup (IF directory = "amps" THEN {"amps/sub"} ELSE {})
        files == {e.path : e \in {x \in tree : x.isfile /\ x.path.parent \in below}}
    IN IF directory \notin Directories
       THEN Raise("FileNotFoundError", <<"Directory not found: ", directory>>)
       ELSE Return([k \in {"nam_files", "metadata_files", "audio_files",
                           "other_files"} |->
                      {f \in files : Category(Lower(f.suffix)) = k}], <<>>)

\* validate_file_structure also clearing is_valid when it warns
ValidUnlessWarned(nam_files, warnings) == nam_files # {} /\ warnings = <<>>

\* validate_file_structure: is_valid starts True and is cleared only by the
\* check for NAM files
IsValid(nam_files, warnings) == nam_files # {}

\* a message of the report, with the stems it lists
Message(text, stems) == [text |-> text, stems |-> stems]

\* FileHandler.validate_file_structure
validate_file_structure(directory, tree) ==
    LET scanned == scan_directory(directory, tree)
        scan_results == scanned.value
        nam_stems == {f.stem : f \in scan_results["nam_files"]}
        json_stems == {f.stem : f \in scan_results["metadata_files"]}
        unpaired_nam == nam_stems \ json_stems
        unpaired_json == json_stems \ nam_stems
        errors == IF scan_results["nam_files"] = {}
                  THEN <<Message("No .nam files found", {})>> ELSE <<>>
        warnings ==
            (IF scan_results["metadata_files"] = {}
             THEN <<Message("No metadata (.json) files found", {})>> ELSE <<>>)
            \o (IF unpaired_nam # {}
                THEN <<Message("NAM files without metadata: ", unpaired_nam)>>
                ELSE <<>>)
            \o (IF unpaired_json # {}
                THEN <<Message("Metadata files without NAM files: ", unpaired_json)>>
                ELSE <<>>)
    IN IF scanned.raised # NoExc THEN scanned
       ELSE Return(
            [is_valid |-> IsValid(scan_results["nam_files"], warnings),
             warnings |-> warnings,
             errors |-> errors,
             file_counts |->
                [nam_files |-> Cardinality(scan_results["nam_files"]),
                 metadata_files |-> Cardinality(scan_results["metadata_files"]),
                 audio_files |-> Cardinality(scan_results["audio_files"]),
                 total_files |-> Cardinality(scan_results["nam_files"])
                                 + Cardinality(scan_results["metadata_files"])
                                 + Cardinality(scan_results["audio_files"])
                                 + Cardinality(scan_results["other_files"])]],
            <<>>)

\* FileHandler.__init__
InitHandler ==
    /\ loaded_models = <<>>
    /\ current_model = None
    /\ heap = EmptyDict
    /\ held = None
    /\ call = [op |-> "FileHandler.__init__"]
    /\ ret = Return(None, <<>>)

\* a caller calls scan_directory on a directory holding the tree
ScanDirectory(directory, tree) ==
    /\ call' = [op |-> "scan_directory", directory |-> directory, tree |-> tree]
    /\ ret' = scan_directory(directory, tree)
    /\ UNCHANGED <<loaded_models, current_model, heap, held>>

\* a caller calls validate_file_structure on a directory holding the tree
ValidateStructure(directory, tree) ==
    /\ call' = [op |-> "validate_file_structure", directory |-> directory,
                tree |-> tree]
    /\ ret' = validate_file_structure(directory, tree)
    /\ UNCHANGED <<loaded_models, current_model, heap, held>>

(* ----------------------- NAMLoader used on its own --------------------- *)
\* a caller calls NAMLoader.load_nam_file
LoadFile(file_path) ==
    /\ call' = [op |-> "load_nam_file", file_path |-> file_path]
    /\ ret' = load_nam_file(file_path)
    /\ UNCHANGED <<loaded_models, current_model, heap, held>>

\* a caller calls NAMLoader.validate_nam_file
ValidateRecord(model_data) ==
    /\ call' = [op |-> "validate_nam_file", model_data |-> model_data]
    /\ ret' = Return(validate_nam_file(model_data), <<>>)
    /\ UNCHANGED <<loaded_models, current_model, heap, held>>

\* a caller calls NAMLoader.get_model_info
DescribeRecord(model_data) ==
    /\ call' = [op |-> "NAMLoader.get_model_info", model_data |-> model_data]
    /\ ret' = Return(NAMLoader_get_model_info(model_data), <<>>)
    /\ UNCHANGED <<loaded_models, current_model, heap, held>>

(* ------------------------------ inputs -------------------------------- *)
\* the calls of load_nam_model: paths without a name, and some paths under a
\* name of the caller's choice
Load(model_path, model_name) == [model_path |-> model_path, model_name |-> model_name]
Loads ==
    {Load(p, None) : p \in Paths \ {TaggedJson, ListJson, MissingWav, UpperJson,
                                     TruncatedNam, CutNam, ForeignNam}}
    \cup {Load(BinaryNam, "lead"), Load(CleanJazzJson, "jazz"), Load(MissingNam, "lead")}

\* names passed to set_current_model and get_model_info
ModelNames == {"clean_jazz", "lead", "raw", "binary", "nonexistent"}

\* the audio buffers of at most MaxLen samples
Buffers == UNION {[1..n -> {-One, (3 * One) \div 10}] : n \in 0..MaxLen}

\* arguments of process_audio: numpy arrays, a list of floats, None
AudioArgs == {Ndarray(b) : b \in Buffers}
             \cup {NotArray(<<(3 * One) \div 10>>), NotArray(<<>>)}

\* keyword names and values of set_parameters; "presence" is no parameter
ParamNames == {"gain", "tone", "volume", "bias", "presence"}
ParamValues == {-(5 * One), One \div 2, 5 * One}

Kwarg(param, value) == [param |-> param, value |-> value]

\* keywords of the calls of set_parameters with several keywords: one of
\* each branch of the loop body
SeveralNames == {"gain", "bias", "presence"}

\* the calls of set_parameters: every keyword alone, and 2..MaxKwargs distinct
\* keywords of SeveralNames in every order
ParamCalls ==
    {<<Kwarg(n, v)>> : n \in ParamNames, v \in ParamValues}
    \cup {c \in UNION {[1..n -> [param : SeveralNames, value : ParamValues]] :
                          n \in 2..MaxKwargs} :
             \A i, j \in 1..Len(c) : i # j => c[i].param # c[j].param}

\* a few calls of set_parameters, for the registry's specification
FewParamCalls ==
    {<<Kwarg("bias", -(5 * One))>>,
     <<Kwarg("presence", One \div 2), Kwarg("volume", 0)>>}

\* buffers for the signal chain: samples at both ends of the range and inside
ChainBuffers == UNION {[1..n -> {-One, (3 * One) \div 10, One}] : n \in 0..MaxLen}

\* buffers of samples beyond the range and of samples that are no finite
\* numbers
WideBuffers ==
    UNION {[1..n -> {-(3 * One), 2 * One, Inf, NaN}] : n \in 0..MaxLen}

\* the parameter settings tried on them: each knob at zero and in between
WideParamCalls ==
    {<<Kwarg("gain", -(5 * One))>>, <<Kwarg("gain", One \div 2)>>,
     <<Kwarg("bias", One \div 2)>>, <<Kwarg("bias", 0)>>,
     <<Kwarg("volume", -(5 * One))>>, <<Kwarg("volume", One \div 2)>>,
     <<Kwarg("tone", 5 * One)>>}

\* effect names passed to add_effect and remove_effect; "fuzz" is no effect
EffectNames == {"reverb", "delay", "fuzz"}

\* the calls of add_effect: every name without parameters, and "reverb"
\* with an empty dict and with a setting
EffectCalls ==
    {[effect_name |-> n, parameters |-> NotGiven] : n \in EffectNames}
    \cup {[effect_name |-> "reverb", parameters |-> ps] :
             ps \in {Given(EmptyDict), Given([mix |-> 50])}}

\* the dict AudioLoader.load returns for a path
LoadedAudio(file_path, format) ==
    [file_path |-> file_path, format |-> format, sample_rate |-> 44100,
     channels |-> 2, duration |-> 0, data |-> None]

\* paths passed to AudioLoader: audio files, a model file, missing files
AudioPaths == AudioFiles \cup {TakeWav, MissingWav, LeadNam, MissingNam}

\* records handed to validate_nam_file and get_model_info: each key absent
\* (<<>>) or present with one of its values
Opt(values) == {<<>>} \cup {<<v>> : v \in values}
RecordOf(choice) ==
    [k \in {x \in DOMAIN choice : choice[x] # <<>>} |-> choice[k][1]]
Records ==
    {RecordOf([file_path |-> fp, model_type |-> mt, metadata_type |-> md,
               raw_data |-> rd, name |-> nm]) :
        fp \in Opt({"", "amps/lead.nam"}),
        mt \in Opt({"nam", "nam_binary"}),
        md \in Opt({"nam_config"}),
        rd \in Opt({RawObject, RawBytes(Files[BinaryNam].size)}),
        nm \in Opt({"lead"})}

(* --------------------------- specifications --------------------------- *)
\* the whole AmpSimulator interface
Next ==
    \/ \E l \in Loads : load_nam_model(l.model_path, l.model_name)
    \/ \E model_name \in ModelNames : set_current_model(model_name)
    \/ get_loaded_models
    \/ \E model_name \in ModelNames \cup {None} : get_model_info(model_name)
    \/ \E params \in FewParamCalls : set_parameters(params)
    \/ \E audio_data \in AudioArgs : process_audio(audio_data)

Spec == Init /\ [][Next]_vars

\* NAMLoader on its own: files loaded, records validated and described
NextLoader ==
    \/ \E file_path \in Paths : LoadFile(file_path)
    \/ \E model_data \in Records : ValidateRecord(model_data)
    \/ \E model_data \in Records : DescribeRecord(model_data)

SpecLoader == Init /\ [][NextLoader]_vars

\* the parameter store under every call of set_parameters
NextParams ==
    \E params \in ParamCalls : set_parameters(params)

SpecParams == Init /\ [][NextParams]_vars

\* the parameter store and the dicts handed out by get_parameters
NextSnapshot ==
    \/ load_nam_model(LeadNam, None)
    \/ \E params \in FewParamCalls : set_parameters(params)
    \/ get_parameters
    \/ \E key \in {"gain", "volume", "extra"}, value \in {0, 2 * One} :
          CallerWrites(key, value)
    \/ \E audio_data \in AudioArgs : process_audio(audio_data)

SpecSnapshot == Init /\ [][NextSnapshot]_vars

\* the signal chain under every parameter setting set_parameters can store
NextChain ==
    \/ load_nam_model(LeadNam, None)
    \/ \E n \in ParamNames, v \in ParamValues : set_parameters(<<Kwarg(n, v)>>)
    \/ \E samples \in ChainBuffers : process_audio(Ndarray(samples))

SpecChain == Init /\ [][NextChain]_vars

\* the effect chain of an AudioProcessor
NextEffects ==
    \/ \E e \in EffectCalls : add_effect(e.effect_name, e.parameters)
    \/ \E effect_name \in EffectNames : remove_effect(effect_name)
    \/ clear_effects
    \/ get_effect_chain

SpecEffects ==
    InitProcessor(LoadedAudio("amps/take.wav", ".wav")) /\ [][NextEffects]_vars

\* an AudioProcessor processing a dict of the caller
NextProcessed ==
    \/ \E effect_name \in EffectNames : add_effect(effect_name, NotGiven)
    \/ \E effect_name \in EffectNames : remove_effect(effect_name)
    \/ clear_effects
    \/ process(AudioDataObj)

\* the dict passed to process is one from AudioLoader, or one that went
\* through process before, under a chain of one effect
SpecProcessed ==
    (\E audio_data \in
        {LoadedAudio("amps/take.wav", ".wav"),
         [file_path |-> "amps/take.wav", format |-> ".wav",
          effects_applied |-> <<"reverb">>,
          processing_chain |-> "an earlier list"]} :
        InitProcessor(audio_data))
    /\ [][NextProcessed]_vars

\* an AudioLoader
NextAudio ==
    \/ \E file_path \in AudioPaths : load(file_path)
    \/ \E file_path \in AudioPaths : is_supported(file_path)

SpecAudio == InitLoader /\ [][NextAudio]_vars

\* a FileHandler on every tree of the entries, and on a missing directory
NextFiles ==
    \/ \E directory \in Directories \cup {"nowhere"}, tree \in SUBSET Entries :
          ScanDirectory(directory, tree)
    \/ \E directory \in Directories \cup {"nowhere"}, tree \in SUBSET Entries :
          ValidateStructure(directory, tree)

SpecFiles == InitHandler /\ [][NextFiles]_vars

\* the signal chain on buffers with samples of any value
NextWide ==
    \/ load_nam_model(LeadNam, None)
    \/ \E params \in WideParamCalls : set_parameters(params)
    \/ \E samples \in WideBuffers : process_audio(Ndarray(samples))

SpecWide == Init /\ [][NextWide]_vars

\* process_audio on an array object of the caller
NextBuffers ==
    \/ load_nam_model(LeadNam, None)
    \/ \E params \in FewParamCalls : set_parameters(params)
    \/ \E samples \in Buffers : CallerFills(samples)
    \/ ProcessArray

SpecBuffers == Init /\ [][NextBuffers]_vars

(* ------------------------- the error kinds ---------------------------- *)
\* NoModelSelected: process_audio's "No NAM model loaded for processing"
NoModelSelected(r) ==
    r.raised = "ValueError" /\ r.msg = <<"No NAM model loaded for processing">>

\* InvalidInput: process_audio's "Audio data must be a numpy array"
InvalidInput(r) ==
    r.raised = "ValueError" /\ r.msg = <<"Audio data must be a numpy array">>

\* UnknownModel: set_current_model's "Model '...' not loaded"
UnknownModel(r, model_name) ==
    r.raised = "ValueError" /\ r.msg = <<"Model '", model_name, "' not loaded">>

\* NotFound: load_nam_file's FileNotFoundError
NotFound(r, file_path) ==
    /\ r.raised = "FileNotFoundError"
    /\ r.msg = <<"NAM file not found: ", PathStr(file_path)>>

\* UnsupportedFormat: load_nam_file's "Unsupported file format: ..."
UnsupportedFormat(r, file_path) ==
    /\ r.raised = "ValueError"
    /\ r.msg = <<"Unsupported file format: ", file_path.suffix>>

\* LoadFailure: load_nam_file's "Error loading NAM file ...: ..." around the
\* message of the exception it caught
LoadFailure(r, file_path) ==
    /\ r.raised = "ValueError"
    /\ Len(r.msg) > 3
    /\ SubSeq(r.msg, 1, 3) = <<"Error loading NAM file ", PathStr(file_path), ": ">>

\* ModelLoadError: load_nam_model's "Failed to load NAM model ...: ..." around
\* the message of the exception it caught
ModelLoadError(r, model_path) ==
    /\ r.raised = "ValueError"
    /\ Len(r.msg) > 3
    /\ SubSeq(r.msg, 1, 3) = <<"Failed to load NAM model ", PathStr(model_path), ": ">>

(* ----------------------------- properties ----------------------------- *)
\* |z|
Abs(z) == IF z < 0 THEN -z ELSE z

\* every sample of the buffer is in [-1, 1]
InUnitRange(samples) ==
    \A i \in 1..Len(samples) : -One <= samples[i] /\ samples[i] <= One

\* value saturated to [lo, hi]
Saturated(value, lo, hi) ==
    IF value < lo THEN lo ELSE IF value > hi THEN hi ELSE value

\* the range of a parameter
LowerBound(param) == IF param = "bias" THEN -One ELSE 0
KnownParams == {"gain", "tone", "volume", "bias"}

\* the lifecycle states: no model and none current, or models and one current
Empty == loaded_models = <<>> /\ current_model = None
Ready == Len(loaded_models) >= 1 /\ current_model # None

\* a file whose bytes are what its extension promises: a pickle stream under
\* .nam, a JSON object under .json
WellFormed(file_path) ==
    /\ Exists(file_path)
    /\ \/ Lower(file_path.suffix) = ".nam" /\ Files[file_path].fmt = "pickle"
       \/ /\ Lower(file_path.suffix) = ".json"
          /\ Files[file_path].fmt = "json"
          /\ Files[file_path].isdict

\* C1: load_nam_model on the metadata file clean_jazz.json, holding
\* {"name": "clean_jazz"}, with no name given returns "clean_jazz"; after it
\* the name is listed, selecting it succeeds, and processing any buffer
\* with samples in [-1, 1] returns as many samples, all in [-1, 1].
C1_MetadataScenario ==
    (call.op = "load_nam_model" /\ call.model_path = CleanJazzJson
        /\ call.model_name = None)
    => /\ ret.raised = NoExc
       /\ ret.value = "clean_jazz"
       /\ \E i \in 1..Len(loaded_models) : OdKeys(loaded_models)[i] = "clean_jazz"
       /\ OdHas(loaded_models, "clean_jazz")
       /\ \A b \in Buffers :
            LET out == ProcessAudio(loaded_models, "clean_jazz",
                                    processing_parameters, Ndarray(b))
            IN out.raised = NoExc /\ Len(out.value) = Len(b) /\ InUnitRange(out.value)

\* C2: load_nam_file on an existing well-formed .nam or .json file does not
\* raise, and returns a record with a non-empty file_path that
\* validate_nam_file accepts.
C2_LoadWellFormed ==
    (call.op = "load_nam_file" /\ WellFormed(call.file_path))
    => /\ ret.raised = NoExc
       /\ "file_path" \in DOMAIN ret.value
       /\ ret.value["file_path"] # ""
       /\ validate_nam_file(ret.value)

C4_ProcessPreconditions ==
    [][call'.op = "process_audio"
       => /\ current_model = None => NoModelSelected(ret')
          /\ (current_model # None /\ ~call'.audio_data.isarray) => InvalidInput(ret')
          /\ ret'.raised # NoExc
             => /\ loaded_models' = loaded_models
                /\ current_model' = current_model
                /\ processing_parameters' = processing_parameters]_vars

\* C4 witness: no model yet, and the argument is not an array either
C4_Witness ==
    /\ call.op = "process_audio"
    /\ current_model = None
    /\ ~call.audio_data.isarray
    /\ NoModelSelected(ret)

\* C5: set_current_model with a name that is no key raises UnknownModel and
\* leaves current_model and loaded_models as they were; with a key it sets
\* current_model to that name and changes nothing else.
C5_SelectModel ==
    [][call'.op = "set_current_model"
       => IF OdHas(loaded_models, call'.model_name)
          THEN /\ ret'.raised = NoExc
               /\ current_model' = call'.model_name
               /\ UNCHANGED <<loaded_models, heap, held>>
          ELSE /\ UnknownModel(ret', call'.model_name)
               /\ UNCHANGED <<loaded_models, current_model, heap, held>>]_vars

\* C5 witness: an unknown name is refused while another model is current
C5_Witness ==
    /\ call.op = "set_current_model"
    /\ call.model_name = "nonexistent"
    /\ UnknownModel(ret, "nonexistent")
    /\ current_model = "binary"
    /\ Len(loaded_models) = 2

\* C6: current_model is unset with no model loaded, or is a key of
\* loaded_models.
C6_RegistryInvariant ==
    \/ current_model = None /\ loaded_models = <<>>
    \/ OdHas(loaded_models, current_model)

\* C6 witness: two models are loaded, the second is current, and the last
\* call was a load that failed
C6_Witness ==
    /\ Len(loaded_models) = 2
    /\ current_model = loaded_models[2].name
    /\ call.op = "load_nam_model"
    /\ ret.raised # NoExc

\* C7: a successful load_nam_model stores the loaded record under the name it
\* returns and makes it current only if no model was current; and only
\* set_current_model changes a current model once one is set.
C7_FirstLoadSelects ==
    [][/\ (call'.op = "load_nam_model" /\ ret'.raised = NoExc)
          => /\ ret'.value = ModelName(call'.model_path, call'.model_name)
             /\ OdHas(loaded_models', ret'.value)
             /\ OdGet(loaded_models', ret'.value) = load_nam_file(call'.model_path).value
             /\ current_model' = IF current_model = None THEN ret'.value
                                 ELSE current_model
       /\ (current_model # None /\ call'.op # "set_current_model")
          => current_model' = current_model]_vars

\* C7 witness: a second model was loaded and the first is still current
C7_Witness ==
    /\ call.op = "load_nam_model"
    /\ ret.raised = NoExc
    /\ Len(loaded_models) = 2
    /\ ret.value = loaded_models[2].name
    /\ current_model = loaded_models[1].name

\* C8: after set_parameters every known keyword holds its value saturated to
\* the parameter's range, and in every state gain, tone and volume are in
\* [0, 1] and bias is in [-1, 1].
C8_Clamping ==
    /\ \A param \in KnownParams :
          /\ LowerBound(param) <= processing_parameters[param]
          /\ processing_parameters[param] <= One
    /\ call.op = "set_parameters"
       => \A i \in 1..Len(call.params) :
             call.params[i].param \in KnownParams
             => processing_parameters[call.params[i].param]
                = Saturated(call.params[i].value, LowerBound(call.params[i].param), One)

\* C8 witness: gain=5.0 is stored as 1.0 and bias=-5.0 as -1.0
C8_Witness ==
    /\ call.op = "set_parameters"
    /\ call.params = <<Kwarg("gain", 5 * One), Kwarg("bias", -(5 * One))>>
    /\ processing_parameters["gain"] = One
    /\ processing_parameters["bias"] = -One

\* C9: a set_parameters call with an unknown keyword does not raise, warns
\* once about that keyword, adds no key to the parameters, stores every known
\* keyword of the call saturated, and leaves every other parameter as it was.
C9_UnknownParameter ==
    [][(call'.op = "set_parameters"
        /\ \E i \in 1..Len(call'.params) : call'.params[i].param \notin KnownParams)
       => /\ ret'.raised = NoExc
          /\ ret'.warned = <<"Unknown parameter: presence">>
          /\ DOMAIN processing_parameters' = DOMAIN processing_parameters
          /\ \A param \in KnownParams :
                IF \E i \in 1..Len(call'.params) : call'.params[i].param = param
                THEN \A i \in 1..Len(call'.params) :
                        call'.params[i].param = param
                        => processing_parameters'[param]
                           = Saturated(call'.params[i].value, LowerBound(param), One)
                ELSE processing_parameters'[param] = processing_parameters[param]]_vars

\* C9 witness: presence is skipped and the bias given after it is stored
C9_Witness ==
    /\ call.op = "set_parameters"
    /\ call.params = <<Kwarg("presence", One \div 2), Kwarg("bias", 5 * One)>>
    /\ ret.warned = <<"Unknown parameter: presence">>
    /\ processing_parameters["bias"] = One
    /\ processing_parameters["gain"] = 0
    /\ DOMAIN processing_parameters = KnownParams

\* C10: get_parameters returns a dict equal to the parameters, and a write of
\* the caller into that dict changes neither the parameters nor what
\* process_audio returns for any argument.
C10_DefensiveCopy ==
    [][/\ call'.op = "get_parameters"
          => /\ ret'.value = processing_parameters
             /\ heap'[held'] = processing_parameters
             /\ processing_parameters' = processing_parameters
       /\ call'.op = "caller writes"
          => /\ processing_parameters' = processing_parameters
             /\ \A audio_data \in AudioArgs :
                   ProcessAudio(loaded_models', current_model',
                                processing_parameters', audio_data)
                   = ProcessAudio(loaded_models, current_model,
                                  processing_parameters, audio_data)]_vars

\* C10 witness: the caller set volume to 2.0 in the returned dict, a model is
\* current, and the parameters still hold the default volume
C10_Witness ==
    /\ call.op = "caller writes"
    /\ call.key = "volume"
    /\ heap[held]["volume"] = 2 * One
    /\ processing_parameters["volume"] = (8 * One) \div 10
    /\ current_model # None

\* C11: with a current model, under every parameter setting set_parameters
\* can store, process_audio on a buffer whose samples are all in [-1, 1]
\* returns a buffer whose samples are all in [-1, 1].
C11_RangePreservation ==
    (/\ call.op = "process_audio"
     /\ current_model # None
     /\ call.audio_data.isarray
     /\ InUnitRange(call.audio_data.samples))
    => /\ ret.raised = NoExc
       /\ InUnitRange(ret.value)

\* C11 witness: gain and bias push a sample beyond 1.0 before the first clamp,
\* at full volume
C11_Witness ==
    /\ call.op = "process_audio"
    /\ ret.raised = NoExc
    /\ processing_parameters["volume"] = One
    /\ \E i \in 1..Len(call.audio_data.samples) :
          FMul(call.audio_data.samples[i], processing_parameters["gain"])
              + processing_parameters["bias"] > One

\* C12: process_audio changes neither the models, nor the current model, nor
\* the parameters; what it returns is the signal chain applied to the buffer
\* and the stored parameters, whatever the model's record; no call other than
\* set_parameters changes the parameters; and a second process_audio call on
\* the same buffer directly after the first returns the same.
C12_ProcessPure ==
    [][/\ call'.op = "process_audio"
          => /\ loaded_models' = loaded_models
             /\ current_model' = current_model
             /\ heap' = heap
             /\ ret'.raised = NoExc
                => ret'.value = SignalChain(call'.audio_data.samples, EmptyDict,
                                            processing_parameters)
       /\ call'.op # "set_parameters"
          => processing_parameters' = processing_parameters
       /\ (/\ call.op = "process_audio"
           /\ call'.op = "process_audio"
           /\ call'.audio_data = call.audio_data)
          => ret' = ret]_vars

\* C12 witness: a buffer was processed under parameters that are no longer the
\* defaults, with two models loaded
C12_Witness ==
    /\ call.op = "process_audio"
    /\ ret.raised = NoExc
    /\ Len(ret.value) = 2
    /\ ret.value[1] # ret.value[2]
    /\ processing_parameters # DefaultParameters
    /\ Len(loaded_models) = 2

\* C13: a successful process_audio returns an array object other than the one
\* passed in, with as many samples, and leaves the samples of the array
\* passed in as they were, under every parameter setting.
C13_NewBuffer ==
    [][(call'.op = "process_audio(array)" /\ ret'.raised = NoExc)
       => /\ ret'.value # InputObj
          /\ heap'[InputObj] = heap[InputObj]
          /\ Len(heap'[ret'.value]) = Len(heap[InputObj])]_vars

\* C13 witness: with gain 1.0 and bias 0.0 a non-empty array was processed,
\* and the array returned holds other samples than the array passed in
C13_Witness ==
    /\ call.op = "process_audio(array)"
    /\ ret.raised = NoExc
    /\ processing_parameters["gain"] = One
    /\ processing_parameters["bias"] = 0
    /\ Len(heap[InputObj]) >= 1
    /\ heap[ret.value] # heap[InputObj]

\* C14: load_nam_file raises NotFound for a path that does not exist,
\* whatever its extension; raises UnsupportedFormat for an existing path whose
\* extension is neither .nam nor .json in any case; and takes an existing
\* .NAM file through the .nam branch and an existing .JSON file through the
\* .json branch.
C14_ExistenceThenExtension ==
    call.op = "load_nam_file"
    => LET file_path == call.file_path
       IN /\ ~Exists(file_path) => NotFound(ret, file_path)
          /\ (Exists(file_path)
              /\ file_path.suffix \notin {".nam", ".NAM", ".json", ".JSON"})
             => UnsupportedFormat(ret, file_path)
          /\ (Exists(file_path) /\ file_path.suffix \in {".nam", ".NAM"})
             => /\ ~UnsupportedFormat(ret, file_path)
                /\ ret.raised = NoExc
                   => ret.value["model_type"] \in {"nam", "nam_binary"}
          /\ (Exists(file_path) /\ file_path.suffix \in {".json", ".JSON"})
             => /\ ~UnsupportedFormat(ret, file_path)
                /\ ret.raised = NoExc
                   => ret.value["metadata_type"] = "nam_config"

\* C14 witness: a .wav path that does not exist is NotFound, not
\* UnsupportedFormat
C14_Witness ==
    /\ call.op = "load_nam_file"
    /\ call.file_path = MissingWav
    /\ NotFound(ret, MissingWav)

\* C15: every load_nam_model call that fails raises ModelLoadError, whether
\* the path is missing, the extension unsupported, the bytes unreadable or
\* the record invalid.
C15_OneErrorKind ==
    (call.op = "load_nam_model" /\ ret.raised # NoExc)
    => ModelLoadError(ret, call.model_path)

\* C15 witness: the loader's FileNotFoundError for a missing path came out as
\* ModelLoadError
C15_Witness ==
    /\ call.op = "load_nam_model"
    /\ call.model_path = MissingNam
    /\ ModelLoadError(ret, MissingNam)
    /\ ret.msg[4] = "NAM file not found: "

\* C16: load_nam_model on an existing .nam file whose bytes pickle rejects
\* with UnpicklingError succeeds and registers a record of kind nam_binary
\* that holds the file's bytes, the number of bytes as file_size,
\* needs_processing true and the path loaded, and that validate_nam_file
\* accepts.
C16_BinaryFallback ==
    (/\ call.op = "load_nam_model"
     /\ Exists(call.model_path)
     /\ call.model_path.suffix \in {".nam", ".NAM"}
     /\ Files[call.model_path].fmt \in {"text", "inside", "json"})
    => /\ ret.raised = NoExc
       /\ OdHas(loaded_models, ret.value)
       /\ LET record == OdGet(loaded_models, ret.value)
          IN /\ DictGet(record, "model_type", None) = "nam_binary"
             /\ DictGet(record, "raw_data", None)
                = RawBytes(Files[call.model_path].size)
             /\ DictGet(record, "file_size", None) = Files[call.model_path].size
             /\ DictGet(record, "needs_processing", None) = TRUE
             /\ DictGet(record, "file_path", None) = PathStr(call.model_path)
             /\ validate_nam_file(record)

\* C16 witness: binary.NAM was registered as "lead" from its raw bytes
C16_Witness ==
    /\ call.op = "load_nam_model"
    /\ call.model_path = BinaryNam
    /\ ret.value = "lead"
    /\ OdHas(loaded_models, "lead")
    /\ OdGet(loaded_models, "lead")["model_type"] = "nam_binary"

\* C17 as claimed: load_nam_file on a .nam file that is empty, truncated, or
\* pickled from a class that cannot be found raises LoadFailure, and so does
\* a .json file that is malformed or holds no JSON object.
C17_TruncatedFails ==
    (call.op = "load_nam_file" /\ Exists(call.file_path))
    => /\ (/\ call.file_path.suffix \in {".nam", ".NAM"}
           /\ Files[call.file_path].fmt \in {"empty", "cut", "inside", "foreign"})
          => LoadFailure(ret, call.file_path)
       /\ (/\ call.file_path.suffix \in {".json", ".JSON"}
           /\ ~(Files[call.file_path].fmt = "json" /\ Files[call.file_path].isdict))
          => LoadFailure(ret, call.file_path)

\* C17 as amended: load_nam_file on a .nam file raises LoadFailure when
\* pickle.load raises anything but UnpicklingError (an empty file, a stream
\* that ends between two opcodes, a class that cannot be found), and returns
\* the raw-bytes record when pickle.load raises UnpicklingError, as it does
\* for a stream truncated inside a frame; a .json file that is malformed or
\* holds no JSON object raises LoadFailure.
C17_OtherExceptions ==
    (call.op = "load_nam_file" /\ Exists(call.file_path))
    => /\ (/\ call.file_path.suffix \in {".nam", ".NAM"}
           /\ Files[call.file_path].fmt \in {"empty", "cut", "foreign"})
          => LoadFailure(ret, call.file_path)
       /\ (/\ call.file_path.suffix \in {".nam", ".NAM"}
           /\ Files[call.file_path].fmt = "inside")
          => /\ ret.raised = NoExc
             /\ ret.value["model_type"] = "nam_binary"
       /\ (/\ call.file_path.suffix \in {".json", ".JSON"}
           /\ ~(Files[call.file_path].fmt = "json" /\ Files[call.file_path].isdict))
          => LoadFailure(ret, call.file_path)

\* C17 witness: a stream truncated inside a frame was returned as a raw-bytes
\* record, after an empty file had been refused
C17_Witness ==
    /\ call.op = "load_nam_file"
    /\ call.file_path = TruncatedNam
    /\ ret.raised = NoExc
    /\ ret.value["model_type"] = "nam_binary"
    /\ ret.value["raw_data"] = RawBytes(Files[TruncatedNam].size)
    /\ LoadFailure(load_nam_file(EmptyNam), EmptyNam)

\* C18: get_model_info never raises and changes no state; without a name it
\* resolves the current model; when no model is resolvable it returns a
\* mapping with the single entry 'error'; otherwise the mapping has no 'error'
\* entry and holds the record's file_path, model_type, file_size (0 if
\* absent) and whether validate_nam_file accepts the record.
C18_DescribeModel ==
    [][call'.op = "get_model_info"
       => /\ ret'.raised = NoExc
          /\ UNCHANGED <<loaded_models, current_model, heap, held>>
          /\ LET name == IF call'.model_name = None THEN current_model
                         ELSE call'.model_name
             IN IF name = None \/ ~OdHas(loaded_models, name)
                THEN DOMAIN ret'.value = {"error"}
                ELSE LET record == OdGet(loaded_models, name)
                     IN /\ "error" \notin DOMAIN ret'.value
                        /\ ret'.value["file_path"] = record["file_path"]
                        /\ ret'.value["model_type"] = record["model_type"]
                        /\ ret'.value["file_size"] = DictGet(record, "file_size", 0)
                        /\ ret'.value["is_valid"] = validate_nam_file(record)]_vars

\* C18 witness: with a model current, a name that is no key got the error
\* mapping
C18_Witness ==
    /\ call.op = "get_model_info"
    /\ call.model_name = "nonexistent"
    /\ current_model # None
    /\ ret.raised = NoExc
    /\ "error" \in DOMAIN ret.value

\* C19: the simulator starts Empty; it leaves Empty only by a successful
\* load_nam_model, and then it is Ready; once Ready it stays Ready under
\* every call; and process_audio fails in Empty.
C19_Lifecycle ==
    /\ Empty
    /\ [][/\ (Empty /\ ~Empty')
             => /\ call'.op = "load_nam_model"
                /\ ret'.raised = NoExc
                /\ Ready'
          /\ Ready => Ready'
          /\ (Empty /\ call'.op = "process_audio") => ret'.raised # NoExc]_vars

\* C19 witness: a load failed in Ready and the simulator is still Ready
C19_Witness ==
    /\ Ready
    /\ Len(loaded_models) = 1
    /\ call.op = "load_nam_model"
    /\ ret.raised # NoExc

\* C20: with a model current, process_audio returns for every buffer what the
\* signal chain gives for the buffer and the parameters alone, and the same
\* whichever loaded model were the current one.
C20_GateOnly ==
    current_model # None
    => \A samples \in Buffers :
          LET out == ProcessAudio(loaded_models, current_model,
                                  processing_parameters, Ndarray(samples))
          IN /\ out = Return(SignalChain(samples, EmptyDict, processing_parameters),
                             <<>>)
             /\ \A i \in 1..Len(loaded_models) :
                   ProcessAudio(loaded_models, loaded_models[i].name,
                                processing_parameters, Ndarray(samples)) = out

\* C20 witness: a buffer was processed with a raw-bytes record current while
\* an unpickled model is loaded too
C20_Witness ==
    /\ call.op = "process_audio"
    /\ ret.raised = NoExc
    /\ Len(ret.value) >= 1
    /\ OdGet(loaded_models, current_model)["model_type"] = "nam_binary"
    /\ \E i \in 1..Len(loaded_models) :
          loaded_models[i].data["model_type"] = "nam"

\* C21: get_loaded_models returns the keys of loaded_models, each once, in
\* the order in which load_nam_model first stored them: a successful load of
\* a new name appends it, and no other call changes the keys or their order.
C21_ListOrder ==
    [][/\ call'.op = "get_loaded_models"
          => /\ ret'.value = OdKeys(loaded_models)
             /\ \A i, j \in 1..Len(ret'.value) :
                   ret'.value[i] = ret'.value[j] => i = j
       /\ OdKeys(loaded_models')
          = IF /\ call'.op = "load_nam_model"
               /\ ret'.raised = NoExc
               /\ ~OdHas(loaded_models, ret'.value)
            THEN Append(OdKeys(loaded_models), ret'.value)
            ELSE OdKeys(loaded_models)]_vars

\* C21 witness: three models listed in load order, which is not alphabetical,
\* with the third one current
C21_Witness ==
    /\ call.op = "get_loaded_models"
    /\ ret.value = <<"lead", "raw", "binary">>
    /\ current_model = "binary"

\* C27: a load_nam_model call that raises leaves loaded_models, current_model
\* and the parameters exactly as they were.
C27_FailedLoadAtomic ==
    [][(call'.op = "load_nam_model" /\ ret'.raised # NoExc)
       => UNCHANGED <<loaded_models, current_model, heap>>]_vars

\* C27 witness: in the empty simulator a metadata file was loaded without
\* error by the loader, failed validation, and nothing was stored or selected
C27_Witness ==
    /\ call.op = "load_nam_model"
    /\ call.model_path = CleanJazzJson
    /\ load_nam_file(CleanJazzJson).raised = NoExc
    /\ ret.raised # NoExc
    /\ loaded_models = <<>>
    /\ current_model = None

\* C28: a successful load_nam_model under a name that is already a key keeps
\* the number and the order of the keys and the current model, stores the
\* newly loaded record under the name, and when the name is the current one
\* get_model_info() then describes the new record.
C28_ReplaceSameName ==
    [][(/\ call'.op = "load_nam_model"
        /\ ret'.raised = NoExc
        /\ OdHas(loaded_models, ret'.value))
       => /\ Len(loaded_models') = Len(loaded_models)
          /\ OdKeys(loaded_models') = OdKeys(loaded_models)
          /\ current_model' = current_model
          /\ OdGet(loaded_models', ret'.value) = load_nam_file(call'.model_path).value
          /\ current_model = ret'.value
             => NAMLoader_get_model_info(OdGet(loaded_models', current_model'))["file_path"]
                = PathStr(call'.model_path)]_vars

\* C28 witness: other/lead.nam replaced amps/lead.nam under the current name
\* "lead", with a second model loaded after it
C28_Witness ==
    /\ call.op = "load_nam_model"
    /\ call.model_path = OtherLeadNam
    /\ ret.value = "lead"
    /\ current_model = "lead"
    /\ Len(loaded_models) = 2
    /\ loaded_models[1].name = "lead"
    /\ loaded_models[1].data["file_size"] = Files[OtherLeadNam].size

\* C29 as claimed: with a current model, for every buffer and every
\* parameter setting every sample z returned satisfies |z| <= volume, and
\* every sample returned is 0 when volume is 0 and when gain and bias are 0.
C29_BoundedByVolume ==
    (call.op = "process_audio" /\ current_model # None /\ call.audio_data.isarray)
    => /\ ret.raised = NoExc
       /\ \A i \in 1..Len(ret.value) :
             /\ ret.value[i] # NaN
             /\ Abs(ret.value[i]) <= processing_parameters["volume"]
             /\ processing_parameters["volume"] = 0 => ret.value[i] = 0
             /\ (processing_parameters["gain"] = 0 /\ processing_parameters["bias"] = 0)
                => ret.value[i] = 0

\* C29 as amended: the same for every sample of the buffer that is a finite
\* number or is infinite under a gain above 0; the sample returned for a nan
\* sample, and for an infinite sample under gain 0, is nan, whatever the
\* volume.
C29_BoundedFinite ==
    (call.op = "process_audio" /\ current_model # None /\ call.audio_data.isarray)
    => /\ ret.raised = NoExc
       /\ Len(ret.value) = Len(call.audio_data.samples)
       /\ \A i \in 1..Len(ret.value) :
             LET x == call.audio_data.samples[i]
                 z == ret.value[i]
             IN IF x = NaN \/ (~IsFinite(x) /\ processing_parameters["gain"] = 0)
                THEN z = NaN
                ELSE /\ z # NaN
                     /\ Abs(z) <= processing_parameters["volume"]
                     /\ processing_parameters["volume"] = 0 => z = 0
                     /\ (/\ processing_parameters["gain"] = 0
                         /\ processing_parameters["bias"] = 0)
                        => z = 0

\* C29 witness: a sample of 2.0 came out at magnitude 0.5, the volume, next
\* to an infinite sample that came out as nan under gain 0
C29_Witness ==
    /\ call.op = "process_audio"
    /\ ret.raised = NoExc
    /\ call.audio_data.samples = <<2 * One, Inf>>
    /\ processing_parameters["gain"] = 0
    /\ processing_parameters["volume"] = One \div 2
    /\ Abs(ret.value[1]) <= One \div 2
    /\ ret.value[2] = NaN

\* C22: add_effect with a name of available_effects appends one entry
\* {name, parameters} to effect_chain, parameters being {} when none are
\* given, and leaves the entries before it as they were, in their order.
C22_AddAppends ==
    [][(call'.op = "add_effect" /\ ret'.raised = NoExc)
       => /\ Len(effect_chain') = Len(effect_chain) + 1
          /\ SubSeq(effect_chain', 1, Len(effect_chain)) = effect_chain
          /\ effect_chain'[Len(effect_chain')].name = call'.effect_name
          /\ effect_chain'[Len(effect_chain')].parameters
             = IF call'.parameters.given THEN call'.parameters.value ELSE EmptyDict]_vars

\* C22 witness: reverb, delay and reverb again, added in that order, the last
\* with parameters
C22_Witness ==
    /\ call.op = "add_effect"
    /\ Len(effect_chain) = 3
    /\ effect_chain[1] = [name |-> "reverb", parameters |-> EmptyDict]
    /\ effect_chain[2].name = "delay"
    /\ effect_chain[3] = [name |-> "reverb", parameters |-> [mix |-> 50]]

\* C23: add_effect with a name that is not in available_effects raises
\* ValueError and leaves effect_chain as it was, and every entry of
\* effect_chain has a name of available_effects.
C23_UnsupportedEffect ==
    [][/\ (/\ call'.op = "add_effect"
           /\ call'.effect_name \notin {"reverb", "delay", "distortion",
                                        "equalizer", "compressor"})
          => /\ ret'.raised = "ValueError"
             /\ effect_chain' = effect_chain
       /\ \A i \in 1..Len(effect_chain') :
             effect_chain'[i].name \in {"reverb", "delay", "distortion",
                                        "equalizer", "compressor"}]_vars

\* C23 witness: "fuzz" was refused with two effects in the chain
C23_Witness ==
    /\ call.op = "add_effect"
    /\ call.effect_name = "fuzz"
    /\ ret.raised = "ValueError"
    /\ Len(effect_chain) = 2

\* C24: remove_effect removes the first entry of the name, keeps all other
\* entries in their order and returns True; with no entry of the name it
\* returns False and leaves the chain as it was; clear_effects leaves the
\* chain empty.
C24_RemoveFirst ==
    [][/\ call'.op = "remove_effect"
          => IF \E i \in 1..Len(effect_chain) :
                   effect_chain[i].name = call'.effect_name
             THEN /\ ret'.value = TRUE
                  /\ \E i \in 1..Len(effect_chain) :
                        /\ effect_chain[i].name = call'.effect_name
                        /\ \A j \in 1..(i - 1) :
                              effect_chain[j].name # call'.effect_name
                        /\ effect_chain'
                           = [k \in 1..(Len(effect_chain) - 1) |->
                                 IF k < i THEN effect_chain[k]
                                 ELSE effect_chain[k + 1]]
             ELSE /\ ret'.value = FALSE
                  /\ effect_chain' = effect_chain
       /\ call'.op = "clear_effects" => effect_chain' = <<>>]_vars

\* C24 witness: the first of two reverb entries was removed from in front of
\* a delay; the second reverb entry is still there, after the delay
C24_Witness ==
    /\ call.op = "remove_effect"
    /\ call.effect_name = "reverb"
    /\ ret.value = TRUE
    /\ Len(effect_chain) = 2
    /\ effect_chain[1].name = "delay"
    /\ effect_chain[2] = [name |-> "reverb", parameters |-> [mix |-> 50]]

\* C25: process returns a dict other than the one passed in, holding every
\* entry of the input under a key it does not write, effects_applied equal to
\* the names of the chain in chain order, and a processing_chain with one
\* entry per entry of the chain; it changes neither the input dict nor the
\* chain; and add_effect, remove_effect and clear_effects do not change the
\* length of a processing_chain returned before.
C25_ProcessReturnsCopy ==
    [][/\ call'.op = "process"
          => LET input == heap[call'.audio_data]
                 output == heap'[ret'.value]
             IN /\ ret'.raised = NoExc
                /\ ret'.value # call'.audio_data
                /\ \A k \in DOMAIN input \ {"effects_applied", "processing_chain"} :
                      k \in DOMAIN output /\ output[k] = input[k]
                /\ output["effects_applied"]
                   = [i \in 1..Len(effect_chain) |-> effect_chain[i].name]
                /\ Len(heap'[output["processing_chain"]]) = Len(effect_chain)
                /\ heap'[call'.audio_data] = input
                /\ effect_chain' = effect_chain
       /\ (/\ call'.op \in {"add_effect", "remove_effect", "clear_effects"}
           /\ CopyObj \in DOMAIN heap)
          => Len(heap'[heap'[CopyObj]["processing_chain"]])
             = Len(heap[heap[CopyObj]["processing_chain"]])]_vars

\* C25 witness: the chain was cleared after a process call that returned a
\* processing_chain of two entries, which still has two entries
C25_Witness ==
    /\ call.op = "clear_effects"
    /\ effect_chain = <<>>
    /\ CopyObj \in DOMAIN heap
    /\ heap[CopyObj]["effects_applied"] = <<"delay", "reverb">>
    /\ Len(heap[heap[CopyObj]["processing_chain"]]) = 2
    /\ "sample_rate" \in DOMAIN heap[CopyObj]
    /\ heap[CopyObj]["sample_rate"] = 44100

\* C26: AudioLoader.load raises FileNotFoundError for a path that does not
\* exist, whatever its extension, and ValueError for an existing path whose
\* lower-cased extension is not supported, and then loaded_files is as it
\* was; for an existing path with a supported extension it returns a dict
\* with file_path the path given and format the lower-cased extension, and
\* stores that dict in loaded_files under the path, next to what was there.
C26_AudioLoad ==
    [][call'.op = "load"
       => LET file_path == call'.file_path
              supported == file_path.suffix \in {".wav", ".WAV", ".mp3", ".ogg",
                                                 ".flac", ".m4a"}
          IN /\ ~os_path_exists(file_path)
                => /\ ret'.raised = "FileNotFoundError"
                   /\ loaded_files' = loaded_files
             /\ (os_path_exists(file_path) /\ ~supported)
                => /\ ret'.raised = "ValueError"
                   /\ loaded_files' = loaded_files
             /\ (os_path_exists(file_path) /\ supported)
                => /\ ret'.raised = NoExc
                   /\ ret'.value["file_path"] = PathStr(file_path)
                   /\ ret'.value["format"]
                      = IF file_path.suffix = ".WAV" THEN ".wav" ELSE file_path.suffix
                   /\ DOMAIN loaded_files'
                      = (DOMAIN loaded_files) \cup {PathStr(file_path)}
                   /\ loaded_files'[PathStr(file_path)] = ret'.value
                   /\ \A k \in DOMAIN loaded_files :
                         k # PathStr(file_path) => loaded_files'[k] = loaded_files[k]]_vars

\* C26 witness: loud.WAV was loaded as format .wav after another file, and a
\* missing .nam path would be FileNotFoundError
C26_Witness ==
    /\ call.op = "load"
    /\ call.file_path = LoudWav
    /\ ret.value["format"] = ".wav"
    /\ DOMAIN loaded_files = {PathStr(LoudWav), "takes/riff.mp3"}
    /\ LoadPrecondition(MissingNam).raised = "FileNotFoundError"

\* C30: the report of validate_file_structure has is_valid false exactly when
\* no regular file of the tree has the extension .nam in any case, and then
\* its errors are not empty; is_valid does not depend on the warnings;
\* total_files is nam_files + metadata_files + audio_files; and
\* scan_directory leaves other_files empty.
C30_ValidateStructure ==
    /\ (call.op = "validate_file_structure" /\ ret.raised = NoExc)
       => LET has_nam ==
                 \E e \in call.tree :
                    /\ e.isfile
                    /\ e.path.suffix \in {".nam", ".NAM"}
                    /\ \/ e.path.parent = call.directory
                       \/ call.directory = "amps" /\ e.path.parent = "amps/sub"
              report == ret.value
          IN /\ report.is_valid = has_nam
             /\ ~report.is_valid => report.errors # <<>>
             /\ report.file_counts.total_files
                = report.file_counts.nam_files + report.file_counts.metadata_files
                  + report.file_counts.audio_files
    /\ (call.op = "scan_directory" /\ ret.raised = NoExc)
       => ret.value["other_files"] = {}

\* C30 witness: a tree with a .nam file, a .json file of another stem and a
\* .txt file is valid with two warnings and two files counted
C30_Witness ==
    /\ call.op = "validate_file_structure"
    /\ call.directory = "amps"
    /\ call.tree = {Entry(LeadNam, TRUE), Entry(CleanJazzJson, TRUE),
                    Entry(MkPath("amps", "notes", ".txt"), TRUE)}
    /\ ret.value.is_valid
    /\ Len(ret.value.warnings) = 2
    /\ ret.value.errors = <<>>
    /\ ret.value.file_counts.total_files = 2

====
